---------------------------- MODULE Spec2Model ----------------------------
(***************************************************************************)
(* A model of sturdins' strapdown mechanization (src/src/strapdown.cpp)    *)
(* and of the reference driver loop (src/tests/test_sim_ins.cpp).          *)
(*                                                                         *)
(* Numbers.  The program computes in IEEE-754 binary64.  The model keeps   *)
(* the floating-point format (sign, significand, binary exponent, rounding *)
(* after every operation, one non-finite value) and narrows the            *)
(* significand to MantBits bits, so that every product of two significands *)
(* fits TLC's 32-bit integers.  A number is <<m, e>>, standing for m*2^e,  *)
(* with 2^(MantBits-1) <= |m| < 2^MantBits, or <<0, 0>> for zero.  The      *)
(* exponent is not bounded.  All non-finite results (0/0, x/0, sqrt of a   *)
(* negative) are the one value NaN, which every operation propagates.      *)
(***************************************************************************)
EXTENDS Integers, Sequences, FiniteSets, TLC

VARIABLES
    phi_, lam_, h_,        \* latitude [rad], longitude [rad], altitude [m]
    vn_, ve_, vd_,         \* north, east, down velocity [m/s]
    q_b_l_,                \* attitude quaternion, body to local-level
    C_b_l_,                \* attitude rotation matrix, body to local-level
    g_, w_en_n_, w_ie_n_,  \* gravity, transport-rate and Earth-rate vectors
    op,                    \* the operation that produced this state
    args,                  \* the arguments of that operation
    pre,                   \* the object's fields when that operation was entered
    aux,                   \* Mechanize's locals (psi, gamma, dv_n, dv_e, dv_d)
    attSet,                \* the attitude has been set by a constructor or setter
    nOps,                  \* operations performed since construction
    run,                   \* consecutive Mechanize calls ending with this state
    start,                 \* the fields when that run of Mechanize calls began
    atRest,                \* every call of that run was given the inputs of rest
    i, time, pc, calls     \* the driver loop: counter, clock, position, call log

vars == <<phi_, lam_, h_, vn_, ve_, vd_, q_b_l_, C_b_l_, g_, w_en_n_, w_ie_n_,
          op, args, pre, aux, attSet, nOps, run, start, atRest, i, time, pc, calls>>

objVars == <<phi_, lam_, h_, vn_, ve_, vd_, q_b_l_, C_b_l_, g_, w_en_n_, w_ie_n_>>
histVars == <<op, args, pre, aux, attSet, nOps, run, start, atRest>>
drvVars == <<i, time, pc, calls>>

---------------------------------------------------------------------------
(* Floating-point arithmetic *)

MantBits == 15
Radix == 2^MantBits
HalfRadix == 2^(MantBits - 1)

NaN == <<0, 1>>
IsNaN(a) == a[1] = 0 /\ a[2] = 1
FZero == <<0, 0>>

AbsI(n) == IF n < 0 THEN -n ELSE n
SgnI(n) == IF n < 0 THEN -1 ELSE 1

\* the number of bits of n, 0 <= n < 2^31
BL4(n) == IF n < 4 THEN (IF n < 2 THEN n ELSE 2) ELSE (IF n < 8 THEN 3 ELSE 4)
BL8s(n, s) == s + BL4(n \div 2^s)
BL8(n) == BL8s(n, IF n < 16 THEN 0 ELSE 4)
BL16s(n, s) == s + BL8(n \div 2^s)
BL16(n) == BL16s(n, IF n < 256 THEN 0 ELSE 8)
BitLens(n, s) == s + BL16(n \div 2^s)
BitLen(n) == BitLens(n, IF n < 65536 THEN 0 ELSE 16)

\* the significand r of k dropped bits may carry into the next binade
Carried(m, e, k, r) ==
    IF r = Radix THEN <<SgnI(m) * HalfRadix, e + k + 1>> ELSE <<SgnI(m) * r, e + k>>

\* m*2^e with k bits too many (k > 0) or too few
Shifted(m, e, k) ==
    IF k > 0 THEN Carried(m, e, k, (AbsI(m) + 2^(k - 1)) \div 2^k)
    ELSE <<m * 2^(-k), e + k>>

\* m*2^e rounded to MantBits significant bits (round half away from zero)
Round(m, e) ==
    IF m = 0 THEN FZero ELSE Shifted(m, e, BitLen(AbsI(m)) - MantBits)

FNeg(a) == IF IsNaN(a) THEN NaN ELSE <<-a[1], a[2]>>

FAdd(a, b) ==
    IF IsNaN(a) \/ IsNaN(b) THEN NaN
    ELSE IF a[1] = 0 THEN b
    ELSE IF b[1] = 0 THEN a
    ELSE LET hi == IF a[2] >= b[2] THEN a ELSE b
             lo == IF a[2] >= b[2] THEN b ELSE a
             d == hi[2] - lo[2]
         IN  IF d > MantBits THEN hi
             ELSE Round(hi[1] * 2^d + lo[1], lo[2])

FSub(a, b) == FAdd(a, FNeg(b))

FMul(a, b) ==
    IF IsNaN(a) \/ IsNaN(b) THEN NaN
    ELSE Round(a[1] * b[1], a[2] + b[2])

FDiv(a, b) ==
    IF IsNaN(a) \/ IsNaN(b) \/ b[1] = 0 THEN NaN
    ELSE LET q == (AbsI(a[1]) * (2 * Radix)) \div AbsI(b[1])
         IN  Round(SgnI(a[1]) * SgnI(b[1]) * q, a[2] - (MantBits + 1) - b[2])

RECURSIVE Newton(_, _)
Newton(n, x) ==
    LET y == (x + n \div x) \div 2
    IN  IF y >= x THEN x ELSE Newton(n, y)

\* the integer square root of n, 0 < n < 2^31
ISqrt(n) == Newton(n, 65536)

FSqrt(a) ==
    IF IsNaN(a) \/ a[1] < 0 THEN NaN
    ELSE IF a[1] = 0 THEN FZero
    ELSE LET s == IF (a[2] - (MantBits + 1)) % 2 = 0 THEN MantBits + 1 ELSE MantBits
         IN  Round(ISqrt(a[1] * 2^s), (a[2] - s) \div 2)

FLt(a, b) == ~IsNaN(a) /\ ~IsNaN(b) /\ FSub(a, b)[1] < 0

FAbs(a) == IF IsNaN(a) THEN NaN ELSE <<AbsI(a[1]), a[2]>>

FromInt(n) == Round(n, 0)

RECURSIVE Pow10(_)
Pow10(k) == IF k = 0 THEN FromInt(1) ELSE FMul(Pow10(k - 1), FromInt(10))

\* the decimal literal n * 10^k
Dec(n, k) ==
    IF k >= 0 THEN FMul(FromInt(n), Pow10(k)) ELSE FDiv(FromInt(n), Pow10(-k))

\* floor of a finite number, as an integer
FloorInt(a) ==
    IF a[2] >= 0 THEN a[1] * 2^(a[2])
    ELSE IF -a[2] > 30 THEN (IF a[1] < 0 THEN -1 ELSE 0)
    ELSE a[1] \div 2^(-a[2])

F0 == FZero
F1 == FromInt(1)
F2 == FromInt(2)
F3 == FromInt(3)
FHalf == Dec(5, -1)
FPi == Dec(31416, -4)
FHalfPi == Dec(15708, -4)
FTwoPi == Dec(62832, -4)

\* the argument brought into [-pi, pi]
ReduceAngle(x) ==
    LET k == FloorInt(FAdd(FDiv(x, FTwoPi), FHalf))
    IN  FSub(x, FMul(FromInt(k), FTwoPi))

RECURSIVE Series(_, _, _, _)
\* sum + the alternating Taylor terms of sin or cos that follow term t
Series(sum, t, x2, ds) ==
    IF ds = <<>> THEN sum
    ELSE LET u == FNeg(FDiv(FMul(t, x2), FromInt(Head(ds))))
         IN  Series(FAdd(sum, u), u, x2, Tail(ds))

SinPoly(x) == Series(x, x, FMul(x, x), <<6, 20, 42, 72>>)
CosPoly(x) == Series(F1, F1, FMul(x, x), <<2, 12, 30, 56, 90>>)

\* an angle of [-pi, pi] folded into [-pi/2, pi/2] with the same sine
FoldSin(r) ==
    IF FLt(FHalfPi, r) THEN FSub(FPi, r)
    ELSE IF FLt(r, FNeg(FHalfPi)) THEN FSub(FNeg(FPi), r)
    ELSE r

FSin(x) == IF IsNaN(x) THEN NaN ELSE SinPoly(FoldSin(ReduceAngle(x)))

\* the cosine of a in [0, pi]
CosFolded(a) ==
    IF FLt(FHalfPi, a) THEN FNeg(CosPoly(FSub(FPi, a))) ELSE CosPoly(a)

FCos(x) == IF IsNaN(x) THEN NaN ELSE CosFolded(FAbs(ReduceAngle(x)))

---------------------------------------------------------------------------
(* Eigen vectors and matrices: a vector is a tuple, a matrix a tuple of rows *)

Zero3 == <<F0, F0, F0>>
VAdd(a, b) == <<FAdd(a[1], b[1]), FAdd(a[2], b[2]), FAdd(a[3], b[3])>>
VSub(a, b) == <<FSub(a[1], b[1]), FSub(a[2], b[2]), FSub(a[3], b[3])>>
VScale(c, a) == <<FMul(c, a[1]), FMul(c, a[2]), FMul(c, a[3])>>
VNeg(a) == <<FNeg(a[1]), FNeg(a[2]), FNeg(a[3])>>
Dot3(a, b) == FAdd(FAdd(FMul(a[1], b[1]), FMul(a[2], b[2])), FMul(a[3], b[3]))
Dot4(a, b) == FAdd(FAdd(FAdd(FMul(a[1], b[1]), FMul(a[2], b[2])), FMul(a[3], b[3])),
                   FMul(a[4], b[4]))
Norm3(a) == FSqrt(Dot3(a, a))
Norm4(a) == FSqrt(Dot4(a, a))
MatVec3(M, v) == <<Dot3(M[1], v), Dot3(M[2], v), Dot3(M[3], v)>>
MatVec4(M, v) == <<Dot4(M[1], v), Dot4(M[2], v), Dot4(M[3], v), Dot4(M[4], v)>>
Transpose3(M) == <<<<M[1][1], M[2][1], M[3][1]>>,
                   <<M[1][2], M[2][2], M[3][2]>>,
                   <<M[1][3], M[2][3], M[3][3]>>>>

---------------------------------------------------------------------------
(* navtools: constants and attitude conversions used by strapdown.cpp *)

WGS84_R0 == FromInt(6378137)
WGS84_RP == FromInt(6356752)
WGS84_E2 == Dec(66944, -7)
WGS84_F == FDiv(F1, Dec(29826, -2))
WGS84_MU == Dec(39860, 10)
WGS84_OMEGA == Dec(72921, -9)

\* roll-pitch-yaw to the body-to-local-level quaternion (scalar first)
QuatOfHalfAngles(sr, cr, sp, cp, sy, cy) ==
    <<FAdd(FMul(FMul(cr, cp), cy), FMul(FMul(sr, sp), sy)),
      FSub(FMul(FMul(sr, cp), cy), FMul(FMul(cr, sp), sy)),
      FAdd(FMul(FMul(cr, sp), cy), FMul(FMul(sr, cp), sy)),
      FSub(FMul(FMul(cr, cp), sy), FMul(FMul(sr, sp), cy))>>

Euler2Quat(rpy) ==
    QuatOfHalfAngles(FSin(FMul(FHalf, rpy[1])), FCos(FMul(FHalf, rpy[1])),
                     FSin(FMul(FHalf, rpy[2])), FCos(FMul(FHalf, rpy[2])),
                     FSin(FMul(FHalf, rpy[3])), FCos(FMul(FHalf, rpy[3])))

DcmOfProducts(ww, xx, yy, zz, wx, wy, wz, xy, xz, yz) ==
    <<<<FSub(FSub(FAdd(ww, xx), yy), zz),
        FMul(F2, FSub(xy, wz)),
        FMul(F2, FAdd(xz, wy))>>,
      <<FMul(F2, FAdd(xy, wz)),
        FSub(FAdd(FSub(ww, xx), yy), zz),
        FMul(F2, FSub(yz, wx))>>,
      <<FMul(F2, FSub(xz, wy)),
        FMul(F2, FAdd(yz, wx)),
        FAdd(FSub(FSub(ww, xx), yy), zz)>>>>

\* the rotation matrix of a quaternion
Quat2Dcm(q) ==
    DcmOfProducts(FMul(q[1], q[1]), FMul(q[2], q[2]), FMul(q[3], q[3]),
                  FMul(q[4], q[4]), FMul(q[1], q[2]), FMul(q[1], q[3]),
                  FMul(q[1], q[4]), FMul(q[2], q[3]), FMul(q[2], q[4]),
                  FMul(q[3], q[4]))

QuatOfScalar(C, q0) ==
    <<q0,
      FDiv(FSub(C[3][2], C[2][3]), FMul(FromInt(4), q0)),
      FDiv(FSub(C[1][3], C[3][1]), FMul(FromInt(4), q0)),
      FDiv(FSub(C[2][1], C[1][2]), FMul(FromInt(4), q0))>>

\* the quaternion of a rotation matrix (rotations by less than 180 degrees)
Dcm2Quat(C) ==
    QuatOfScalar(C, FMul(FHalf, FSqrt(FAdd(FAdd(FAdd(F1, C[1][1]), C[2][2]), C[3][3]))))

---------------------------------------------------------------------------
(* Strapdown: construction and setters *)

X1ME2_ == FSub(F1, WGS84_E2)
wR0sqRpMu_ ==
    FDiv(FMul(FMul(FMul(FMul(WGS84_OMEGA, WGS84_OMEGA), WGS84_R0), WGS84_R0), WGS84_RP),
         WGS84_MU)

\* the object's fields, as one record
Fields == [phi |-> phi_, lam |-> lam_, h |-> h_, vn |-> vn_, ve |-> ve_, vd |-> vd_,
           q |-> q_b_l_, C |-> C_b_l_, g |-> g_, w_en |-> w_en_n_, w_ie |-> w_ie_n_]

ZeroMat == <<Zero3, Zero3, Zero3>>
NoArgs == [pos |-> Zero3, vel |-> Zero3, rpy |-> Zero3, C |-> ZeroMat,
           wb |-> Zero3, fb |-> Zero3, dt |-> F0]
NoAux == [psi0 |-> Zero3, gamma |-> F0, psi |-> Zero3, divided |-> FALSE,
          dv |-> Zero3]

Deg(d10) == FDiv(FMul(FromInt(d10), FPi), FromInt(1800))

\* what the fields of a default-constructed object may hold: the constructor
\* writes none of phi_ .. C_b_l_, so they hold whatever the storage held:
\* zero, some finite number, or a bit pattern that is not a number
Indeterminate == {F0, Dec(-37, -1), NaN}

\* the arguments the model constructs and sets with
PosArgs == {<<Deg(320), FNeg(Deg(855)), FromInt(200)>>, Zero3}
VelArgs == {Zero3, <<FromInt(10), FromInt(-5), FromInt(2)>>}
RpyArgs == {Zero3, <<Dec(1, -1), Dec(-2, -1), Dec(3, -1)>>}
DcmArgs == {Quat2Dcm(Euler2Quat(<<Dec(-4, -1), Dec(2, -1), Dec(12, -1)>>)),
            Quat2Dcm(Euler2Quat(Zero3))}
CtorArgs == {<<<<Deg(320), FNeg(Deg(855)), FromInt(200)>>, Zero3, Zero3>>,
             <<Zero3, Zero3, Zero3>>,
             <<Zero3, <<FromInt(10), FromInt(-5), FromInt(2)>>,
               <<Dec(1, -1), Dec(-2, -1), Dec(3, -1)>>>>}

\* Strapdown::Strapdown()
InitDefault ==
    \E x \in Indeterminate :
        /\ phi_ = x /\ lam_ = x /\ h_ = x
        /\ vn_ = x /\ ve_ = x /\ vd_ = x
        /\ q_b_l_ = <<x, x, x, x>>
        /\ C_b_l_ = <<<<x, x, x>>, <<x, x, x>>, <<x, x, x>>>>
        /\ g_ = Zero3 /\ w_en_n_ = Zero3 /\ w_ie_n_ = Zero3
        /\ op = "Strapdown" /\ args = NoArgs /\ attSet = FALSE

\* Strapdown::Strapdown(lat, lon, alt, veln, vele, veld, roll, pitch, yaw)
Construct(pos, vel, rpy) ==
        /\ phi_ = pos[1] /\ lam_ = pos[2] /\ h_ = pos[3]
        /\ vn_ = vel[1] /\ ve_ = vel[2] /\ vd_ = vel[3]
        /\ g_ = Zero3 /\ w_en_n_ = Zero3 /\ w_ie_n_ = Zero3
        /\ q_b_l_ = Euler2Quat(rpy)
        /\ C_b_l_ = Quat2Dcm(Euler2Quat(rpy))
        /\ op = "Strapdown9"
        /\ args = [NoArgs EXCEPT !.pos = pos, !.vel = vel, !.rpy = rpy]
        /\ attSet = TRUE

InitArgs == \E a \in CtorArgs : Construct(a[1], a[2], a[3])

NoCalls == [iter |-> -1, mech |-> 0, prop |-> 0, gnss |-> 0, rec |-> 0,
            nMech |-> 0, nProp |-> 0, nGnss |-> 0, nRec |-> 0]
DriverIdle == i = 0 /\ time = 0 /\ pc = "idle" /\ calls = NoCalls

Constructed ==
    /\ pre = Fields
    /\ aux = NoAux
    /\ nOps = 0
    /\ run = 0
    /\ start = Fields
    /\ atRest = FALSE

Init ==
    /\ InitDefault \/ InitArgs
    /\ Constructed
    /\ DriverIdle

\* bookkeeping common to the setters
Called(name, a, set) ==
    /\ nOps' = nOps + 1
    /\ op' = name
    /\ args' = a
    /\ pre' = Fields
    /\ aux' = NoAux
    /\ attSet' = set
    /\ run' = 0
    /\ start' = start
    /\ atRest' = FALSE
    /\ UNCHANGED drvVars

\* a position setter that also brings the object to rest
SetPositionAtRest(lat, lon, alt) ==
    /\ phi_' = lat /\ lam_' = lon /\ h_' = alt
    /\ vn_' = F0 /\ ve_' = F0 /\ vd_' = F0
    /\ UNCHANGED <<q_b_l_, C_b_l_, g_, w_en_n_, w_ie_n_>>
    /\ Called("SetPosition", [NoArgs EXCEPT !.pos = <<lat, lon, alt>>], attSet)

SetPosition(lat, lon, alt) ==
    /\ phi_' = lat
    /\ lam_' = lon
    /\ h_' = alt
    /\ UNCHANGED <<vn_, ve_, vd_, q_b_l_, C_b_l_, g_, w_en_n_, w_ie_n_>>
    /\ Called("SetPosition", [NoArgs EXCEPT !.pos = <<lat, lon, alt>>], attSet)

SetVelocity(veln, vele, veld) ==
    /\ vn_' = veln
    /\ ve_' = vele
    /\ vd_' = veld
    /\ UNCHANGED <<phi_, lam_, h_, q_b_l_, C_b_l_, g_, w_en_n_, w_ie_n_>>
    /\ Called("SetVelocity", [NoArgs EXCEPT !.vel = <<veln, vele, veld>>], attSet)

\* SetAttitude(roll, pitch, yaw)
SetAttitude(roll, pitch, yaw) ==
    /\ q_b_l_' = Euler2Quat(<<roll, pitch, yaw>>)
    /\ C_b_l_' = Quat2Dcm(q_b_l_')
    /\ UNCHANGED <<phi_, lam_, h_, vn_, ve_, vd_, g_, w_en_n_, w_ie_n_>>
    /\ Called("SetAttitude", [NoArgs EXCEPT !.rpy = <<roll, pitch, yaw>>], TRUE)

\* SetAttitude(C)
SetAttitudeC(C) ==
    /\ C_b_l_' = C
    /\ q_b_l_' = Dcm2Quat(C_b_l_')
    /\ UNCHANGED <<phi_, lam_, h_, vn_, ve_, vd_, g_, w_en_n_, w_ie_n_>>
    /\ Called("SetAttitudeC", [NoArgs EXCEPT !.C = C], TRUE)

---------------------------------------------------------------------------
(* Strapdown::Mechanize *)

\* Re_, Rn_, He_, Hn_ and g0_ from the sines, t and sqrt(t)
Radii(sL, cL, sLsq, t, sqt, h) ==
    [sL |-> sL, cL |-> cL, tL |-> FDiv(sL, cL), sLsq |-> sLsq,
     Re |-> FDiv(WGS84_R0, sqt),
     Rn |-> FDiv(FMul(WGS84_R0, X1ME2_), FDiv(FMul(t, t), sqt)),
     He |-> FAdd(FDiv(WGS84_R0, sqt), h),
     Hn |-> FAdd(FDiv(FMul(WGS84_R0, X1ME2_), FDiv(FMul(t, t), sqt)), h),
     g0 |-> FMul(Dec(97803, -4),
                 FDiv(FAdd(F1, FMul(Dec(19319, -7), sLsq)), sqt))]

\* t = 1 - e^2 sin^2 and its square root
Curvature(sL, cL, sLsq, t, h) == Radii(sL, cL, sLsq, t, FSqrt(t), h)

SineTerms(sL, cL, sLsq, h) ==
    Curvature(sL, cL, sLsq, FSub(F1, FMul(WGS84_E2, sLsq)), h)

Sines(sL, cL, h) == SineTerms(sL, cL, FMul(sL, sL), h)

\* sine functions of latitude, radii of curvature, normal gravity
LatitudeTerms(phi, h) == Sines(FSin(phi), FCos(phi), h)

\* g_ after GravityVector(): g_(1) keeps its value
GravityVector(g, phi, h, r) ==
    LET hR0 == FDiv(h, WGS84_R0)
        hR0sq == FMul(hR0, hR0)
    IN  <<FMul(FMul(FNeg(Dec(808, -11)), h), FSin(FMul(F2, phi))),
          g[2],
          FMul(r.g0,
               FAdd(FSub(F1,
                         FMul(FDiv(FMul(F2, h), WGS84_R0),
                              FAdd(FAdd(F1, FMul(WGS84_F,
                                                 FSub(F1, FMul(F2, r.sLsq)))),
                                   wR0sqRpMu_))),
                    FMul(F3, hR0sq)))>>

\* w_ie_n_ after EarthRateVector(): w_ie_n_(1) keeps its value
EarthRateVector(w, r) ==
    <<FMul(WGS84_OMEGA, r.cL), w[2], FMul(WGS84_OMEGA, r.sL)>>

\* w_en_n_ after TransportRateVector()
TransportRateVector(vn, ve, r) ==
    LET w0 == FDiv(ve, r.He)
    IN  <<w0, FDiv(FNeg(vn), r.Hn), FMul(FNeg(w0), r.tL)>>

\* an attitude increment that takes the body rate alone
BodyRateIncrement(wb, C, w_ie, w_en, dt) == VScale(dt, wb)

\* psi = (wb - C_b_l_^T (w_ie_n_ + w_en_n_)) dt
AttitudeIncrement(wb, C, w_ie, w_en, dt) ==
    VScale(dt, VSub(wb, MatVec3(Transpose3(C), VAdd(w_ie, w_en))))

SmallAngle == Dec(1, -5)

\* the exact form whatever gamma is
ExactIncrement(psi, gamma) ==
    [psi |-> VScale(FDiv(FMul(FHalf, FSin(gamma)), gamma), psi), divided |-> TRUE]

\* psi after the small-angle branch; divided: the division by gamma was executed
ScaleIncrement(psi, gamma) ==
    IF FLt(gamma, SmallAngle)
    THEN [psi |-> VScale(FHalf, psi), divided |-> FALSE]
    ELSE [psi |-> VScale(FDiv(FMul(FHalf, FSin(gamma)), gamma), psi),
          divided |-> TRUE]

QDot(cgamma, psi) ==
    <<<<cgamma, FNeg(psi[1]), FNeg(psi[2]), FNeg(psi[3])>>,
      <<psi[1], cgamma, psi[3], FNeg(psi[2])>>,
      <<psi[2], FNeg(psi[3]), cgamma, psi[1]>>,
      <<psi[3], psi[2], FNeg(psi[1]), cgamma>>>>

\* the product left as it is
NotNormalized(q) == q

Divided4(q, n) == <<FDiv(q[1], n), FDiv(q[2], n), FDiv(q[3], n), FDiv(q[4], n)>>

\* q /= q.norm()
Normalized(q) == Divided4(q, Norm4(q))

\* the matrix of the quaternion just integrated
UpdatedDcm(C, qNew) == Quat2Dcm(qNew)

\* the matrix C_b_l_ holds when the specific force is rotated: the one of
\* call entry, the new quaternion's matrix being stored only afterwards
SpecificForceDcm(C, qNew) == C

\* a velocity delta without gravity
DeltaWithoutGravity(fn, g, we, vn, ve, vd, dt) ==
    <<FMul(FSub(fn[1], FSub(FMul(we[2], vd), FMul(we[3], ve))), dt),
      FMul(FSub(fn[2], FSub(FMul(we[1], vd), FMul(we[3], vn))), dt),
      FMul(FSub(fn[3], FSub(FMul(we[1], ve), FMul(we[2], vn))), dt)>>

\* dv_n, dv_e, dv_d
VelocityDelta(fn, g, we, vn, ve, vd, dt) ==
    <<FMul(FSub(FAdd(fn[1], g[1]), FSub(FMul(we[2], vd), FMul(we[3], ve))), dt),
      FMul(FSub(FAdd(fn[2], g[2]), FSub(FMul(we[1], vd), FMul(we[3], vn))), dt),
      FMul(FSub(FAdd(fn[3], g[3]), FSub(FMul(we[1], ve), FMul(we[2], vn))), dt)>>

\* a rectangular integration, from the old velocity alone
RectangularIntegration(phi, lam, h, vn, ve, vd, dv, r, dt) ==
    <<FAdd(phi, FMul(FDiv(vn, r.Hn), dt)),
      FAdd(lam, FMul(FDiv(ve, FMul(r.He, r.cL)), dt)),
      FSub(h, FMul(vd, dt))>>

\* phi_, lam_, h_ after the position integration
PositionIntegration(phi, lam, h, vn, ve, vd, dv, r, dt) ==
    <<FAdd(phi, FMul(FDiv(FAdd(vn, FMul(FHalf, dv[1])), r.Hn), dt)),
      FAdd(lam, FMul(FDiv(FAdd(ve, FMul(FHalf, dv[2])), FMul(r.He, r.cL)), dt)),
      FSub(h, FMul(FAdd(vd, FMul(FHalf, dv[3])), dt))>>

\* the inputs of rest: no angular rate, no velocity, and a specific force
\* whose local-level image cancels gravity on all three axes (the
\* Coriolis/transport term vanishes with the velocity)
Balanced(s, wb, fb) ==
    /\ wb = Zero3
    /\ s.vn = F0 /\ s.ve = F0 /\ s.vd = F0
    /\ VAdd(MatVec3(s.C, fb),
            GravityVector(s.g, s.phi, s.h, LatitudeTerms(s.phi, s.h))) = Zero3

\* Mechanize(wb, fb, dt): the locals are bound in the order of the statements
Mechanize(wb, fb, dt) ==
    \E r \in {LatitudeTerms(phi_, h_)} :
    \E g \in {GravityVector(g_, phi_, h_, r)} :
    \E w_ie \in {EarthRateVector(w_ie_n_, r)} :
    \E w_en \in {TransportRateVector(vn_, ve_, r)} :
    \E we \in {VAdd(w_ie, VScale(F2, w_en))} :
    \E psi0 \in {AttitudeIncrement(wb, C_b_l_, w_ie, w_en, dt)} :
    \E gamma \in {FMul(FHalf, Norm3(psi0))} :
    \E cgamma \in {FCos(gamma)} :
    \E sc \in {ScaleIncrement(psi0, gamma)} :
    \E q \in {Normalized(MatVec4(QDot(cgamma, sc.psi), q_b_l_))} :
    \E fn \in {MatVec3(SpecificForceDcm(C_b_l_, q), fb)} :
    \E dv \in {VelocityDelta(fn, g, we, vn_, ve_, vd_, dt)} :
    \E p \in {PositionIntegration(phi_, lam_, h_, vn_, ve_, vd_, dv, r, dt)} :
        /\ g_' = g /\ w_ie_n_' = w_ie /\ w_en_n_' = w_en
        /\ q_b_l_' = q
        /\ phi_' = p[1] /\ lam_' = p[2] /\ h_' = p[3]
        /\ C_b_l_' = Quat2Dcm(q)
        /\ vn_' = FAdd(vn_, dv[1]) /\ ve_' = FAdd(ve_, dv[2]) /\ vd_' = FAdd(vd_, dv[3])
        /\ nOps' = nOps + 1
        /\ op' = "Mechanize"
        /\ args' = [NoArgs EXCEPT !.wb = wb, !.fb = fb, !.dt = dt]
        /\ pre' = Fields
        /\ aux' = [psi0 |-> psi0, gamma |-> gamma, psi |-> sc.psi,
                   divided |-> sc.divided, dv |-> dv]
        /\ attSet' = attSet
        /\ run' = run + 1
        /\ start' = IF run = 0 THEN Fields ELSE start
        /\ atRest' = ((run = 0 \/ atRest) /\ Balanced(Fields, wb, fb))
        /\ UNCHANGED drvVars

\* the IMU samples the model mechanizes with: the angular rate is zero, the
\* rate a gyroscope at rest senses, or a fast rotation; the specific force is
\* the one an accelerometer at rest senses, or an accelerating one
RestRateAt(r) ==
    MatVec3(Transpose3(C_b_l_),
            VAdd(EarthRateVector(w_ie_n_, r), TransportRateVector(vn_, ve_, r)))
RestRate == RestRateAt(LatitudeTerms(phi_, h_))
RestForce ==
    VNeg(MatVec3(Transpose3(C_b_l_),
                 GravityVector(g_, phi_, h_, LatitudeTerms(phi_, h_))))
WbInputs == {Zero3, RestRate, <<FromInt(50), FromInt(-20), FromInt(100)>>}
FbInputs == {RestForce, <<Dec(15, -1), Dec(-3, -1), Dec(-95, -1)>>}
T == Dec(1, -2)

MaxOps == 2

Next ==
    \/ \E a \in PosArgs : nOps < MaxOps /\ SetPosition(a[1], a[2], a[3])
    \/ \E a \in VelArgs : nOps < MaxOps /\ SetVelocity(a[1], a[2], a[3])
    \/ \E a \in RpyArgs : nOps < MaxOps /\ SetAttitude(a[1], a[2], a[3])
    \/ \E C \in DcmArgs : nOps < MaxOps /\ SetAttitudeC(C)
    \/ \E wb \in WbInputs, fb \in FbInputs : nOps < MaxOps /\ Mechanize(wb, fb, T)

Spec == Init /\ [][Next]_vars

---------------------------------------------------------------------------
\* Properties of the strapdown object under Spec.

\* comparison helpers of the properties
FLe(a, b) == ~IsNaN(a) /\ ~IsNaN(b) /\ FSub(a, b)[1] <= 0
Within(a, b, tol) == FLe(FAbs(FSub(a, b)), tol)
Finite3(v) == ~IsNaN(v[1]) /\ ~IsNaN(v[2]) /\ ~IsNaN(v[3])
Finite4(q) == ~IsNaN(q[1]) /\ ~IsNaN(q[2]) /\ ~IsNaN(q[3]) /\ ~IsNaN(q[4])
\* a few units of the arithmetic's rounding at 1
NormTol == Dec(5, -4)
UnitNorm(q) == Within(Dot4(q, q), F1, NormTol)
Usable(q) == Finite4(q) /\ Dot4(q, q) # F0

C2_PairConsistent ==
    \A r \in 1..3 : \A c \in 1..3 :
        Within(C_b_l_[r][c], Quat2Dcm(q_b_l_)[r][c], NormTol)

\* C3: while every Mechanize call of a run is given the inputs of rest (zero
\* angular rate, zero velocity at the start, specific force cancelling
\* gravity), position and velocity stay exactly where the run started.
C3_StaticFixedPoint ==
    (op = "Mechanize" /\ atRest) =>
        /\ phi_ = start.phi /\ lam_ = start.lam /\ h_ = start.h
        /\ vn_ = F0 /\ ve_ = F0 /\ vd_ = F0
        /\ aux.dv = Zero3

\* two consecutive calls at rest, away from the equator, with gravity acting
C3_Witness ==
    /\ op = "Mechanize" /\ atRest /\ run >= 2
    /\ args.fb # Zero3
    /\ g_[3] # F0
    /\ phi_ = start.phi /\ vn_ = F0

\* the fields a setter must leave alone
SamePosition == phi_ = pre.phi /\ lam_ = pre.lam /\ h_ = pre.h
SameVelocity == vn_ = pre.vn /\ ve_ = pre.ve /\ vd_ = pre.vd
SameAttitude == q_b_l_ = pre.q /\ C_b_l_ = pre.C
SameRates == g_ = pre.g /\ w_en_n_ = pre.w_en /\ w_ie_n_ = pre.w_ie

\* C5: each setter writes its own fields with the values it was given and
\* leaves every other field of the navigation state unchanged.
C5_SetterFootprints ==
    /\ op = "SetPosition" =>
          /\ <<phi_, lam_, h_>> = args.pos
          /\ SameVelocity /\ SameAttitude /\ SameRates
    /\ op = "SetVelocity" =>
          /\ <<vn_, ve_, vd_>> = args.vel
          /\ SamePosition /\ SameAttitude /\ SameRates
    /\ op = "SetAttitude" =>
          /\ q_b_l_ = Euler2Quat(args.rpy)
          /\ SamePosition /\ SameVelocity /\ SameRates
    /\ op = "SetAttitudeC" =>
          /\ C_b_l_ = args.C
          /\ SamePosition /\ SameVelocity /\ SameRates

\* a position set on an object that has moved: velocity and attitude are not
\* at their constructed values and the position really changes
C5_Witness ==
    /\ op = "SetPosition" /\ nOps >= 2
    /\ <<phi_, lam_, h_>> # <<pre.phi, pre.lam, pre.h>>
    /\ vn_ # F0
    /\ attSet

\* the rate vectors and the velocity delta computed from the fields at entry
EntryTerms == LatitudeTerms(pre.phi, pre.h)
EntryGravity == GravityVector(pre.g, pre.phi, pre.h, EntryTerms)
EntryEarthRate == EarthRateVector(pre.w_ie, EntryTerms)
EntryTransportRate == TransportRateVector(pre.vn, pre.ve, EntryTerms)
EntryForce == MatVec3(pre.C, args.fb)
EntryCoriolisRate == VAdd(EntryEarthRate, VScale(F2, EntryTransportRate))

\* C6: Mechanize computes gravity, Earth rate and transport rate from the
\* position and velocity at entry, rotates the specific force with the
\* rotation matrix at entry, and refreshes the matrix from the new quaternion
\* before it commits the velocity.
C6_EntryState ==
    op = "Mechanize" =>
        /\ g_ = EntryGravity
        /\ w_ie_n_ = EntryEarthRate
        /\ w_en_n_ = EntryTransportRate
        /\ aux.psi0 = AttitudeIncrement(args.wb, pre.C, EntryEarthRate,
                                        EntryTransportRate, args.dt)
        /\ aux.dv = VelocityDelta(EntryForce, EntryGravity, EntryCoriolisRate,
                                  pre.vn, pre.ve, pre.vd, args.dt)
        /\ C_b_l_ = Quat2Dcm(q_b_l_)
        /\ <<vn_, ve_, vd_>> = VAdd(<<pre.vn, pre.ve, pre.vd>>, aux.dv)

\* a call that moves everything: attitude, velocity and position all change,
\* so the entry values and the updated ones are different
C6_Witness ==
    /\ op = "Mechanize" /\ attSet
    /\ C_b_l_ # pre.C
    /\ Finite3(aux.dv) /\ aux.dv # Zero3
    /\ phi_ # pre.phi /\ lam_ # pre.lam
    /\ MatVec3(C_b_l_, args.fb) # EntryForce

\* the cross product a x b
Cross3(a, b) ==
    <<FSub(FMul(a[2], b[3]), FMul(a[3], b[2])),
      FSub(FMul(a[3], b[1]), FMul(a[1], b[3])),
      FSub(FMul(a[1], b[2]), FMul(a[2], b[1]))>>

\* C7: on each axis the velocity delta of Mechanize is (f_n + g - c) dt with c
\* the matching component of the cross product (w_ie + 2 w_en) x v of the
\* combined rate with the velocity at entry.
C7_CoriolisCrossProduct ==
    op = "Mechanize" =>
        LET c == Cross3(EntryCoriolisRate, <<pre.vn, pre.ve, pre.vd>>)
            a == VSub(VAdd(EntryForce, EntryGravity), c)
        IN  aux.dv = VScale(args.dt, a)

\* the relative closeness of two results computed in a different order
Close(a, b) ==
    \/ a = b
    \/ /\ ~IsNaN(a) /\ ~IsNaN(b)
       /\ FLe(FMul(FAbs(FSub(a, b)), FromInt(2000)), FAdd(FAbs(a), FAbs(b)))

\* C8: latitude grows by (vn + dv_n/2) dt / (Rn + h), longitude by
\* (ve + dv_e/2) dt / ((Re + h) cos(lat)), altitude falls by (vd + dv_d/2) dt,
\* with radii, altitude and latitude those at entry.
C8_TrapezoidalPosition ==
    op = "Mechanize" =>
        LET r == EntryTerms
            vn == FAdd(pre.vn, FMul(FHalf, aux.dv[1]))
            ve == FAdd(pre.ve, FMul(FHalf, aux.dv[2]))
            vd == FAdd(pre.vd, FMul(FHalf, aux.dv[3]))
        IN  /\ Close(phi_, FAdd(pre.phi, FDiv(FMul(vn, args.dt),
                                             FAdd(r.Rn, pre.h))))
            /\ Close(lam_, FAdd(pre.lam,
                                FDiv(FMul(ve, args.dt),
                                     FMul(FAdd(r.Re, pre.h), FCos(pre.phi)))))
            /\ Close(h_, FSub(pre.h, FMul(vd, args.dt)))

\* a call on a moving, accelerating object: the velocity delta is a visible
\* share of the velocity, and latitude, longitude and altitude all move
C8_Witness ==
    /\ op = "Mechanize" /\ attSet
    /\ pre.vn # F0 /\ pre.ve # F0 /\ pre.vd # F0
    /\ Finite3(aux.dv)
    /\ FLt(Dec(1, -2), FAbs(aux.dv[1])) /\ FLt(Dec(1, -2), FAbs(aux.dv[3]))
    /\ phi_ # pre.phi /\ lam_ # pre.lam /\ h_ # pre.h

\* C9: above the threshold the increment is scaled by sin(gamma)/(2 gamma),
\* below it by 1/2, and gamma is never divided by when it is zero.
C9_SmallAngleBranch ==
    op = "Mechanize" =>
        /\ aux.gamma = FMul(FHalf, Norm3(aux.psi0))
        /\ FLt(SmallAngle, aux.gamma) =>
              /\ aux.divided
              /\ aux.psi = VScale(FDiv(FMul(FHalf, FSin(aux.gamma)), aux.gamma),
                                  aux.psi0)
        /\ FLt(aux.gamma, SmallAngle) =>
              /\ ~aux.divided
              /\ aux.psi = VScale(FHalf, aux.psi0)
        /\ aux.divided => aux.gamma # F0

\* the zero increment: the gyroscope senses exactly the rate of the frame
C9_Witness ==
    /\ op = "Mechanize" /\ attSet
    /\ args.wb # Zero3
    /\ aux.psi0 = Zero3 /\ aux.gamma = F0
    /\ ~aux.divided
    /\ q_b_l_ = pre.q

\* both other cases of the branch: an increment below the threshold that is
\* not zero, and one above it
C9_BelowThreshold ==
    op = "Mechanize" /\ aux.gamma # F0 /\ FLt(aux.gamma, SmallAngle)
C9_AboveThreshold ==
    op = "Mechanize" /\ attSet /\ FLt(SmallAngle, aux.gamma)


---------------------------------------------------------------------------
(* The static scenario: an object constructed at rest and level, mechanized
   with a zero angular rate and the specific force [0, 0, -g]. *)

StaticPosition == <<Deg(320), FNeg(Deg(855)), FromInt(200)>>
StaticGravity ==
    GravityVector(Zero3, StaticPosition[1], StaticPosition[3],
                  LatitudeTerms(StaticPosition[1], StaticPosition[3]))[3]
StaticForce == <<F0, F0, FNeg(StaticGravity)>>
StaticSteps == 100

InitStatic ==
    /\ Construct(StaticPosition, Zero3, Zero3)
    /\ Constructed
    /\ DriverIdle

StaticStep ==
    /\ nOps < StaticSteps
    /\ Mechanize(Zero3, StaticForce, T)

NextStatic == StaticStep

SpecStatic == InitStatic /\ [][NextStatic]_vars

Identity4 == <<F1, F0, F0, F0>>
PositionHeld(tol) ==
    /\ Within(phi_, StaticPosition[1], tol)
    /\ Within(lam_, StaticPosition[2], tol)
    /\ Within(h_, StaticPosition[3], tol)
VelocityHeld(tol) ==
    Within(vn_, F0, tol) /\ Within(ve_, F0, tol) /\ Within(vd_, F0, tol)

\* C4 as stated: after every step of the static scenario the quaternion is
\* [1,0,0,0] to within 1e-9 and position and velocity are the initial ones
\* to within 1e-6.
C4_StaticHeld ==
    op = "Mechanize" =>
        /\ \A k \in 1..4 : Within(q_b_l_[k], Identity4[k], Dec(1, -9))
        /\ PositionHeld(Dec(1, -6))
        /\ VelocityHeld(Dec(1, -6))

\* C4 amended: after every step of the static scenario the quaternion has
\* unit norm and stays within 1e-4 of [1,0,0,0], but it turns with the Earth:
\* after k steps its roll component is between 3.0e-7 k and 3.2e-7 k and its
\* yaw component between 1.8e-7 k and 2.0e-7 k in magnitude; position stays
\* within 1e-6 and velocity within 1e-3 of the initial state.
C4_StaticDrift ==
    op = "Mechanize" =>
        /\ UnitNorm(q_b_l_)
        /\ \A k \in 1..4 : Within(q_b_l_[k], Identity4[k], Dec(1, -4))
        /\ FLe(FMul(FromInt(nOps), Dec(30, -8)), FAbs(q_b_l_[2]))
        /\ FLe(FAbs(q_b_l_[2]), FMul(FromInt(nOps), Dec(32, -8)))
        /\ FLe(FMul(FromInt(nOps), Dec(18, -8)), FAbs(q_b_l_[4]))
        /\ FLe(FAbs(q_b_l_[4]), FMul(FromInt(nOps), Dec(20, -8)))
        /\ PositionHeld(Dec(1, -6))
        /\ VelocityHeld(Dec(1, -3))

\* the end of the scenario, the velocity having left the 1e-6 band
C4_Witness ==
    /\ op = "Mechanize" /\ nOps = StaticSteps /\ run = StaticSteps
    /\ args.wb = Zero3 /\ args.fb = StaticForce
    /\ FLt(Dec(1, -6), FAbs(ve_))

---------------------------------------------------------------------------
(* The reference driver: main() of tests/test_sim_ins.cpp. The filter's fields
   are written by code of the Ins class; the loop is followed through its
   counter, its clock and the calls each iteration makes. *)

MaxRecords == 60

\* ~x on a two's complement int
BitNot(x) == -x - 1

InitDriver ==
    /\ InitDefault
    /\ Constructed
    /\ i = 0 /\ time = 0 /\ pc = "loop" /\ calls = NoCalls

\* one iteration of the while loop: a record was read
Iterate ==
    /\ pc = "loop"
    /\ i < MaxRecords
    /\ LET gate == IF BitNot(i % 20) # 0 THEN 1 ELSE 0
       IN  calls' = [iter |-> i, mech |-> 1, prop |-> 1, gnss |-> gate, rec |-> gate,
                     nMech |-> calls.nMech + 1, nProp |-> calls.nProp + 1,
                     nGnss |-> calls.nGnss + gate, nRec |-> calls.nRec + gate]
    /\ time' = time + 1
    /\ i' = i + 1
    /\ pc' = "loop"
    /\ UNCHANGED <<objVars, histVars>>

\* the read fails at the end of the file: the streams are closed
Finish ==
    /\ pc = "loop"
    /\ pc' = "done"
    /\ UNCHANGED <<objVars, histVars, i, time, calls>>

NextDriver == Iterate \/ Finish

SpecDriver == InitDriver /\ [][NextDriver]_vars

\* C10: every iteration calls Mechanize and Propagate once; GnssUpdate is
\* called and a record written exactly on the iterations with i mod 20 = 0.
C10_GnssEveryTwentieth ==
    calls.iter >= 0 =>
        /\ calls.mech = 1 /\ calls.prop = 1
        /\ calls.gnss = (IF calls.iter % 20 = 0 THEN 1 ELSE 0)
        /\ calls.rec = calls.gnss
        /\ calls.nMech = i /\ calls.nProp = i


===========================================================================
